---- MODULE Spec2Model ----
(***************************************************************************)
(* Document discovery and extraction of aichat_server (src/rag/loader.rs): *)
(* parse_glob, is_valid_extension, list_files / add_file, and load with    *)
(* its lazily initialised tool-availability flags.                         *)
(*                                                                         *)
(* Strings are sequences of one-character strings.  A path is a sequence   *)
(* of components, each component a string.                                 *)
(***************************************************************************)
EXTENDS Integers, Sequences, FiniteSets, TLC

VARIABLES
    path_str,      \* parse_glob: the argument
    pieces,        \* the number of pieces path_str was written from
    glob_result,   \* parse_glob: the returned Result, or the idle record
    filt_suffixes, \* is_valid_extension: the Option<&Vec<String>> argument
    filt_path,     \* is_valid_extension: the Path argument
    filt_result,   \* is_valid_extension: "idle", or the returned bool
    fs,            \* the file system: path |-> [kind, entries in read order]
    files,         \* list_files: the Vec<String> the paths are pushed to
    files_before,  \* files as it was when list_files was called
    ls_suffixes,   \* list_files: the extension filter
    stack,         \* list_files: the suspended calls, the innermost last
    ls_status,     \* "setup", "running", or how the call ended: "Ok", "Err"
    ls_err,        \* the error message of an "Err"
    visited,       \* directory entries next_entry has handed out
    abort_signal,  \* the caller's AbortSignal
    present,       \* the environment: whether `which` finds each tool now
    EXIST,         \* the lazy statics EXIST_PANDOC and EXIST_PDFTOTEXT
    lookup_log,    \* per tool, what the `which` lookups made so far returned
    calls          \* per caller, its call of load

globVars == <<path_str, pieces, glob_result>>

filtVars == <<filt_suffixes, filt_path, filt_result>>

listVars ==
    <<fs, files, files_before, ls_suffixes, stack, ls_status, ls_err, visited,
      abort_signal>>

loadVars == <<present, EXIST, lookup_log, calls>>

vars == <<globVars, filtVars, listVars, loadVars>>

-----------------------------------------------------------------------------
(* Bounds of the model *)

\* number of pieces an input of parse_glob is concatenated from
MaxPieces == 5

\* length of a file name
MaxNameLen == 3

\* length of an extension filter
MaxSuffixes == 2

\* files, directories and special files of the file system, the root included
MaxNodes == 5

\* threads that call load
NumCallers == 2

-----------------------------------------------------------------------------
(* Strings *)

NoneIdx == -1

Min(S) == CHOOSE x \in S : \A y \in S : x <= y

\* s[from..) : the suffix of s after its first `from` characters
From(s, from) == SubSeq(s, from + 1, Len(s))

\* s[from..to) in Rust's notation (0-based, `to` exclusive)
Slice(s, from, to) == SubSeq(s, from + 1, to)

\* str::find(pat): the 0-based offset of the first occurrence, or NoneIdx
find(s, pat) ==
    LET hits == {i \in 0..(Len(s) - Len(pat)) : Slice(s, i, i + Len(pat)) = pat}
    IN  IF hits = {} THEN NoneIdx ELSE Min(hits)

starts_with(s, c) == Len(s) >= 1 /\ s[1] = c

ends_with(s, c) == Len(s) >= 1 /\ s[Len(s)] = c

\* str::split(','): the segments between the commas, at least one
RECURSIVE split(_, _)
split(s, c) ==
    LET i == find(s, <<c>>)
    IN  IF i = NoneIdx THEN <<s>>
        ELSE <<Slice(s, 0, i)>> \o split(From(s, i + 1), c)

-----------------------------------------------------------------------------
(* parse_glob *)

FwdMarker == <<"/", "*", "*", "/", "*", ".">>

BwdMarker == <<"\\", "*", "*", "\\", "*", ".">>

GlobIdle == [state |-> "idle", base_path |-> <<>>, extensions |-> <<>>, msg |-> <<>>]

GlobOk(base_path, extensions) ==
    [state |-> "Ok", base_path |-> base_path, extensions |-> extensions, msg |-> <<>>]

\* bail!("Invalid path '{path_str}'")
GlobErr(p) ==
    [state |-> "Err", base_path |-> <<>>, extensions |-> <<>>,
     msg |-> <<"Invalid path ", "'">> \o p \o <<"'">>]

\* faulty variant: the marker is searched for without its final dot
find_marker_nodot(p) ==
    IF find(p, Slice(FwdMarker, 0, 5)) # NoneIdx
    THEN find(p, Slice(FwdMarker, 0, 5))
    ELSE find(p, Slice(BwdMarker, 0, 5))

\* path_str.find("/**/*.").or_else(|| path_str.find(r"\**\*."))
find_marker(p) ==
    IF find(p, FwdMarker) # NoneIdx THEN find(p, FwdMarker) ELSE find(p, BwdMarker)

\* faulty variant: only the closing brace is looked at
is_wrapped_end_only(extensions_str) == ends_with(extensions_str, "}")

\* extensions_str.starts_with('{') && extensions_str.ends_with('}')
is_wrapped(extensions_str) ==
    starts_with(extensions_str, "{") /\ ends_with(extensions_str, "}")

\* faulty variant: the inner text is not split on commas
split_extensions_whole(extensions_str) ==
    <<Slice(extensions_str, 1, Len(extensions_str) - 1)>>

\* extensions_str[1..extensions_str.len() - 1].split(',')
split_extensions(extensions_str) ==
    split(Slice(extensions_str, 1, Len(extensions_str) - 1), ",")

\* the branch taken when a '}' follows the marker
brace_branch(p, start, curly_brace_end) ==
    LET end == start + curly_brace_end
        extensions_str == Slice(p, start + 6, end + 1)
    IN  IF is_wrapped(extensions_str)
        THEN GlobOk(Slice(p, 0, start), split_extensions(extensions_str))
        ELSE GlobErr(p)

\* faulty variant: an unclosed brace is an error, as a closed one's absence is
literal_branch_strict(p, start) ==
    IF starts_with(From(p, start + 6), "{")
    THEN GlobErr(p)
    ELSE GlobOk(Slice(p, 0, start), <<From(p, start + 6)>>)

\* the branch taken when no '}' follows the marker
literal_branch(p, start) ==
    GlobOk(Slice(p, 0, start), <<From(p, start + 6)>>)

parse_glob(p) ==
    LET start == find_marker(p)
    IN  IF start # NoneIdx
        THEN LET curly_brace_end == find(From(p, start), <<"}">>)
             IN  IF curly_brace_end # NoneIdx
                 THEN brace_branch(p, start, curly_brace_end)
                 ELSE literal_branch(p, start)
        ELSE GlobOk(p, <<>>)

\* The pieces inputs are made of: both markers, the forward marker without
\* its dot, and the characters the parser looks at.
Pieces ==
    {FwdMarker, BwdMarker, <<"/", "*", "*", "/", "*">>,
     <<"d">>, <<"{">>, <<"}">>, <<",">>}

\* the caller's pattern grows by one piece
WritePiece ==
    /\ glob_result.state = "idle"
    /\ pieces < MaxPieces
    /\ \E piece \in Pieces : path_str' = path_str \o piece
    /\ pieces' = pieces + 1
    /\ UNCHANGED <<glob_result, filtVars, listVars, loadVars>>

\* the caller evaluates parse_glob(path_str)
ParseGlob ==
    /\ glob_result.state = "idle"
    /\ glob_result' = parse_glob(path_str)
    /\ UNCHANGED <<path_str, pieces, filtVars, listVars, loadVars>>


-----------------------------------------------------------------------------
(* is_valid_extension *)

None == [some |-> FALSE, val |-> <<>>]

Some(v) == [some |-> TRUE, val |-> v]

Last(s) == s[Len(s)]

\* a byte that is no valid UTF-8, and U+FFFD, the character it decodes to
BadByte == "xFF"

Replacement == "uFFFD"

\* OsStr::to_string_lossy
to_string_lossy(os) ==
    [k \in 1..Len(os) |-> IF os[k] = BadByte THEN Replacement ELSE os[k]]

\* Path::file_name: the last component, unless the path ends in ".."
RECURSIVE file_name(_)
file_name(path) ==
    IF path = <<>> \/ Last(path) = <<".", ".">> THEN None
    ELSE IF Last(path) = <<".">> THEN file_name(SubSeq(path, 1, Len(path) - 1))
    ELSE Some(Last(path))

\* Path::extension: the part of the file name after its last dot; none when
\* there is no dot or nothing but the name's first character before it
extension(path) ==
    LET name == file_name(path)
        dots == {j \in 1..Len(name.val) : name.val[j] = "."}
        dot  == CHOOSE j \in dots : \A k \in dots : k <= j
    IN  IF ~name.some \/ dots = {} THEN None
        ELSE IF dot = 1 THEN None
        ELSE Some(SubSeq(name.val, dot + 1, Len(name.val)))

\* Vec::contains
contains(v, x) == \E k \in 1..Len(v) : v[k] = x

\* faulty variant: a path without an extension passes a non-empty filter
is_valid_extension_lenient(suffixes, path) ==
    IF suffixes.some /\ suffixes.val # <<>> /\ extension(path).some
    THEN contains(suffixes.val, to_string_lossy(extension(path).val))
    ELSE TRUE

is_valid_extension(suffixes, path) ==
    IF suffixes.some /\ suffixes.val # <<>>
    THEN IF extension(path).some
         THEN contains(suffixes.val, to_string_lossy(extension(path).val))
         ELSE FALSE
    ELSE TRUE

NameChars == {"m", "M", ".", BadByte}

\* the extensions a filter is written from: Strings, so valid text
FilterExts == {<<"m">>, <<"M">>, <<>>, <<Replacement>>}

\* the caller names a file: one more character of the name
WriteNameChar ==
    /\ filt_result = "idle"
    /\ \E c \in NameChars :
        IF filt_path = <<>>
        THEN filt_path' = <<<<c>>>>
        ELSE /\ Len(filt_path[1]) < MaxNameLen
             /\ filt_path' = <<filt_path[1] \o <<c>>>>
    /\ UNCHANGED <<filt_suffixes, filt_result, globVars, listVars, loadVars>>

\* the caller passes Some(&vec![])
GiveSuffixes ==
    /\ filt_result = "idle"
    /\ ~filt_suffixes.some
    /\ filt_suffixes' = Some(<<>>)
    /\ UNCHANGED <<filt_path, filt_result, globVars, listVars, loadVars>>

\* the caller's filter grows by one extension
PushSuffix ==
    /\ filt_result = "idle"
    /\ filt_suffixes.some
    /\ Len(filt_suffixes.val) < MaxSuffixes
    /\ \E e \in FilterExts : filt_suffixes' = Some(Append(filt_suffixes.val, e))
    /\ UNCHANGED <<filt_path, filt_result, globVars, listVars, loadVars>>

\* the caller evaluates is_valid_extension(suffixes, path)
CheckExtension ==
    /\ filt_result = "idle"
    /\ filt_path # <<>>
    /\ filt_result' =
           IF is_valid_extension(filt_suffixes, filt_path) THEN "true" ELSE "false"
    /\ UNCHANGED <<filt_suffixes, filt_path, globVars, listVars, loadVars>>

-----------------------------------------------------------------------------
(* list_files and add_file *)

RootPath == <<<<"r">>>>

\* the directory entries a tree is made of: files with and without an
\* extension, directories likewise, and a special file (a socket, a device)
Entries ==
    {[name |-> <<"a", ".", "m">>, kind |-> "file"],
     [name |-> <<"a", ".", "m">>, kind |-> "dir"],
     [name |-> <<"b", ".", "t">>, kind |-> "file"],
     [name |-> <<"s">>, kind |-> "file"],
     [name |-> <<"s">>, kind |-> "dir"],
     [name |-> <<"s">>, kind |-> "other"]}

\* the filters list_files is called with
ListFilters == {None, Some(<<<<"m">>>>), Some(<<<<"t">>, <<"m">>>>)}

\* what files may hold when list_files is called
EarlierFiles == {<<>>, <<<<"o", "l", "d">>>>}

exists(path) == path \in DOMAIN fs

is_file(path) == exists(path) /\ fs[path].kind = "file"

is_dir(path) == exists(path) /\ fs[path].kind = "dir"

\* path.display().to_string(): the components, lossily decoded, joined by '/'
RECURSIVE display(_)
display(path) ==
    IF Len(path) = 1 THEN to_string_lossy(path[1])
    ELSE display(SubSeq(path, 1, Len(path) - 1)) \o <<"/">>
             \o to_string_lossy(Last(path))

\* faulty variant: the filter is not consulted
add_file_unfiltered(fl, suffixes, path) == Append(fl, display(path))

add_file(fl, suffixes, path) ==
    IF is_valid_extension(suffixes, path) THEN Append(fl, display(path)) ELSE fl

Ended(fl, status, err) ==
    [files |-> fl, stack |-> <<>>, status |-> status, err |-> err]

\* a call returned Ok(()) to the frames stk that wait for it
Returned(fl, stk) ==
    [files |-> fl, stack |-> stk,
     status |-> IF stk = <<>> THEN "Ok" ELSE "running", err |-> ""]

\* faulty variant: a path that is neither file nor directory is skipped
list_files_call_skipping(fl, stk, entry_path, suffixes) ==
    IF ~exists(entry_path) THEN Ended(fl, "Err", "Not found")
    ELSE IF is_file(entry_path)
    THEN Returned(add_file(fl, suffixes, entry_path), stk)
    ELSE IF ~is_dir(entry_path) THEN Returned(fl, stk)
    ELSE [files |-> fl,
          stack |-> Append(stk, [path |-> entry_path, pos |-> 0, pc |-> "read_dir"]),
          status |-> "running", err |-> ""]

\* list_files from its entry to its first await: the three checks, then
\* tokio::fs::read_dir is awaited.  An error ends every waiting call (`?`).
list_files_call(fl, stk, entry_path, suffixes) ==
    IF ~exists(entry_path) THEN Ended(fl, "Err", "Not found")
    ELSE IF is_file(entry_path)
    THEN Returned(add_file(fl, suffixes, entry_path), stk)
    ELSE IF ~is_dir(entry_path) THEN Ended(fl, "Err", "Not a directory")
    ELSE [files |-> fl,
          stack |-> Append(stk, [path |-> entry_path, pos |-> 0, pc |-> "read_dir"]),
          status |-> "running", err |-> ""]

\* faulty variant: the signal is not looked at
Resumable_deaf == TRUE

\* whether a suspended list_files is resumed: not once the signal is raised
Resumable == ~abort_signal

Top == stack[Len(stack)]

Below == SubSeq(stack, 1, Len(stack) - 1)

Apply(outcome) ==
    /\ files' = outcome.files
    /\ stack' = outcome.stack
    /\ ls_status' = outcome.status
    /\ ls_err' = outcome.err

\* the file system before the call: the root is made ...
MakeRoot ==
    /\ ls_status = "setup"
    /\ ~exists(RootPath)
    /\ \E kind \in {"file", "dir", "other"} :
        fs' = [p \in {RootPath} |-> [kind |-> kind, entries |-> <<>>]]
    /\ UNCHANGED <<files, files_before, ls_suffixes, stack, ls_status, ls_err,
                   visited, abort_signal, globVars, filtVars, loadVars>>

\* ... and a directory gets one more entry, read after those it has
MakeEntry ==
    /\ ls_status = "setup"
    /\ Cardinality(DOMAIN fs) < MaxNodes
    /\ \E parent \in DOMAIN fs, e \in Entries :
        /\ fs[parent].kind = "dir"
        /\ ~contains(fs[parent].entries, e.name)
        /\ fs' = [p \in DOMAIN fs \cup {Append(parent, e.name)} |->
                    IF p = parent
                    THEN [kind |-> "dir", entries |-> Append(fs[parent].entries, e.name)]
                    ELSE IF p = Append(parent, e.name)
                    THEN [kind |-> e.kind, entries |-> <<>>]
                    ELSE fs[p]]
    /\ UNCHANGED <<files, files_before, ls_suffixes, stack, ls_status, ls_err,
                   visited, abort_signal, globVars, filtVars, loadVars>>

\* list_files(&mut files, root, suffixes) is called
StartList ==
    /\ ls_status = "setup"
    /\ \E suffixes \in ListFilters, earlier \in EarlierFiles :
        /\ ls_suffixes' = suffixes
        /\ files_before' = earlier
        /\ Apply(list_files_call(earlier, <<>>, RootPath, suffixes))
    /\ UNCHANGED <<fs, visited, abort_signal, globVars, filtVars, loadVars>>

\* read_dir(entry_path).await gives the reader
ReadDir ==
    /\ ls_status = "running"
    /\ Resumable
    /\ Top.pc = "read_dir"
    /\ stack' = Append(Below, [Top EXCEPT !.pc = "next_entry"])
    /\ UNCHANGED <<fs, files, files_before, ls_suffixes, ls_status, ls_err,
                   visited, abort_signal, globVars, filtVars, loadVars>>

\* read_dir(entry_path).await? or reader.next_entry().await? gives an error
ReadFails ==
    /\ ls_status = "running"
    /\ Resumable
    /\ Apply(Ended(files, "Err", "io"))
    /\ UNCHANGED <<fs, files_before, ls_suffixes, visited, abort_signal,
                   globVars, filtVars, loadVars>>

\* reader.next_entry().await gives the next entry, or None and the call returns
NextEntry ==
    /\ ls_status = "running"
    /\ Resumable
    /\ Top.pc = "next_entry"
    /\ IF Top.pos = Len(fs[Top.path].entries)
       THEN /\ Apply(Returned(files, Below))
            /\ UNCHANGED visited
       ELSE LET path == Append(Top.path, fs[Top.path].entries[Top.pos + 1])
                waiting == Append(Below, [Top EXCEPT !.pos = Top.pos + 1])
            IN  /\ visited' = visited + 1
                /\ IF is_file(path)
                   THEN Apply(Returned(add_file(files, ls_suffixes, path), waiting))
                   ELSE IF is_dir(path)
                   THEN Apply(list_files_call(files, waiting, path, ls_suffixes))
                   ELSE Apply(Returned(files, waiting))
    /\ UNCHANGED <<fs, files_before, ls_suffixes, abort_signal, globVars, filtVars, loadVars>>

\* the caller's abort signal is raised during the traversal
RaiseAbort ==
    /\ ls_status = "running"
    /\ ~abort_signal
    /\ abort_signal' = TRUE
    /\ UNCHANGED <<fs, files, files_before, ls_suffixes, stack, ls_status,
                   ls_err, visited, globVars, filtVars, loadVars>>

\* the suspended traversal is dropped and the caller gets Cancelled
Cancelled ==
    /\ ls_status = "running"
    /\ abort_signal
    /\ Apply(Ended(files, "Err", "Cancelled"))
    /\ UNCHANGED <<fs, files_before, ls_suffixes, visited, abort_signal,
                   globVars, filtVars, loadVars>>

-----------------------------------------------------------------------------
(* load, load_with_pandoc, load_with_pdftotext and the lazy statics *)

Tools == {"pandoc", "pdftotext"}

Callers == 1..NumCallers

Extensions == {"docx", "epub", "pdf", "txt"}

\* load's match: the tool an extension is converted with, "" for plain text
tool_of(ext) ==
    IF ext \in {"docx", "epub"} THEN "pandoc"
    ELSE IF ext = "pdf" THEN "pdftotext"
    ELSE ""

LoadIdle == [state |-> "idle", msg |-> <<>>]

LoadOk == [state |-> "Ok", msg |-> <<>>]

LoadErr(msg) == [state |-> "Err", msg |-> msg]

\* the two bail! messages
NeedToInstall(tool) ==
    IF tool = "pdftotext"
    THEN <<"Need to install ", "pdftotext", " (part of the poppler package)",
           " to load the file.">>
    ELSE <<"Need to install ", "pandoc", " to load the file.">>

\* run_external_tool's results: the process could not be spawned, or it ran
SpawnFailed == LoadErr(<<"io: cannot run the command">>)

ToolResults(tool) ==
    {LoadOk, LoadErr(<<"stderr">>), LoadErr(<<tool, " exited with non-zero.">>)}

AsFlag(b) == IF b THEN "true" ELSE "false"

\* faulty variant: the initialiser is run by whoever finds the static unset
OnceMayStart_racy(cell) == cell \in {"uninit", "running"}

\* lazy_static!: the thread that finds the static uninitialised runs the
\* initialiser; a thread that finds it running waits
OnceMayStart(cell) == cell = "uninit"

\* faulty variant: the flag is not tested
MayRun_always(flag) == TRUE

\* the test of `if !*EXIST_PDFTOTEXT` and of `if !*EXIST_PANDOC`
MayRun(flag) == flag = "true"

IdleCall ==
    [pc |-> "idle", extension |-> "txt", observed |-> "none", spawned |-> FALSE,
     result |-> LoadIdle, absent_all |-> FALSE]

InFlight(c) == c.pc \notin {"idle", "done"}

\* load(path, extension) is called
CallLoad ==
    /\ \E t \in Callers, ext \in Extensions :
        /\ ~InFlight(calls[t])
        /\ calls' = [calls EXCEPT ![t] =
               [pc |-> IF tool_of(ext) = "" THEN "read" ELSE "deref",
                extension |-> ext, observed |-> "none", spawned |-> FALSE,
                result |-> LoadIdle,
                absent_all |-> tool_of(ext) # "" /\ ~present[tool_of(ext)]]]
    /\ UNCHANGED <<present, EXIST, lookup_log, globVars, filtVars, listVars>>

\* load_plain: read_to_string(path)?
LoadPlain ==
    /\ \E t \in Callers, r \in {LoadOk, LoadErr(<<"io: cannot read the file">>)} :
        /\ calls[t].pc = "read"
        /\ calls' = [calls EXCEPT ![t].pc = "done", ![t].result = r]
    /\ UNCHANGED <<present, EXIST, lookup_log, globVars, filtVars, listVars>>

\* *EXIST_x: the static is read, or its initialiser is entered; the flag read
\* decides between bail! and run_external_tool
Deref ==
    /\ \E t \in Callers :
        LET tool == tool_of(calls[t].extension)
        IN  /\ calls[t].pc = "deref"
            /\ IF OnceMayStart(EXIST[tool])
               THEN /\ EXIST' = [EXIST EXCEPT ![tool] = "running"]
                    /\ calls' = [calls EXCEPT ![t].pc = "which"]
               ELSE /\ EXIST[tool] \in {"true", "false"}
                    /\ UNCHANGED EXIST
                    /\ calls' = [calls EXCEPT
                           ![t].observed = EXIST[tool],
                           ![t].pc = IF MayRun(EXIST[tool]) THEN "spawn" ELSE "done",
                           ![t].result = IF MayRun(EXIST[tool]) THEN LoadIdle
                                         ELSE LoadErr(NeedToInstall(tool))]
    /\ UNCHANGED <<present, lookup_log, globVars, filtVars, listVars>>

\* the initialiser: which("pandoc").is_ok(), which("pdftotext").is_ok()
Which ==
    /\ \E t \in Callers :
        LET tool == tool_of(calls[t].extension)
        IN  /\ calls[t].pc = "which"
            /\ EXIST' = [EXIST EXCEPT ![tool] = AsFlag(present[tool])]
            /\ lookup_log' = [lookup_log EXCEPT
                   ![tool] = Append(lookup_log[tool], AsFlag(present[tool]))]
            /\ calls' = [calls EXCEPT ![t].pc = "deref"]
    /\ UNCHANGED <<present, globVars, filtVars, listVars>>

\* run_external_tool(cmd, args)
RunExternalTool ==
    /\ \E t \in Callers :
        LET tool == tool_of(calls[t].extension)
        IN  /\ calls[t].pc = "spawn"
            /\ \E r \in IF present[tool] THEN ToolResults(tool) ELSE {SpawnFailed} :
                calls' = [calls EXCEPT
                    ![t].pc = "done", ![t].spawned = TRUE, ![t].result = r]
    /\ UNCHANGED <<present, EXIST, lookup_log, globVars, filtVars, listVars>>

\* the environment: a tool is installed ...
Install ==
    /\ \E tool \in Tools :
        /\ ~present[tool]
        /\ present' = [present EXCEPT ![tool] = TRUE]
        /\ calls' = [t \in Callers |->
               IF InFlight(calls[t]) /\ tool_of(calls[t].extension) = tool
               THEN [calls[t] EXCEPT !.absent_all = FALSE]
               ELSE calls[t]]
    /\ UNCHANGED <<EXIST, lookup_log, globVars, filtVars, listVars>>

\* ... or removed
Remove ==
    /\ \E tool \in Tools :
        /\ present[tool]
        /\ present' = [present EXCEPT ![tool] = FALSE]
    /\ UNCHANGED <<EXIST, lookup_log, calls, globVars, filtVars, listVars>>

-----------------------------------------------------------------------------
(* Properties of parse_glob *)

Contains(s, pat) ==
    \E i \in 0..(Len(s) - Len(pat)) : Slice(s, i, i + Len(pat)) = pat

HasChar(s, cs) == \E j \in 1..Len(s) : s[j] \in cs

NoMarkerIn(s) == ~Contains(s, FwdMarker) /\ ~Contains(s, BwdMarker)

Parsed == glob_result.state # "idle"

\* the positions of the commas of s, and the k-th of them
Commas(s) == {j \in 1..Len(s) : s[j] = ","}

NthComma(s, k) ==
    CHOOSE j \in Commas(s) : Cardinality({c \in Commas(s) : c < j}) = k - 1

\* the list e1..en that s = e1 "," ... "," en writes, no ei holding a comma
Listed(s) ==
    LET n == Cardinality(Commas(s)) + 1
    IN  [k \in 1..n |->
            SubSeq(s, IF k = 1 THEN 1 ELSE NthComma(s, k - 1) + 1,
                      IF k = n THEN Len(s) ELSE NthComma(s, k) - 1)]

\* path_str = B \o M \o T for a base B with neither marker, B of length i
SplitsAt(i, M) ==
    /\ i + 6 <= Len(path_str)
    /\ Slice(path_str, i, i + 6) = M
    /\ NoMarkerIn(Slice(path_str, 0, i))

\* T = e1 for an extension e1 without '{', '}' and ','
SingleForm(T) == ~HasChar(T, {"{", "}", ","})

\* T = "{" e1 "," ... "," en "}" for extensions without '{', '}' and ','
BracedForm(T) ==
    /\ Len(T) >= 2
    /\ T[1] = "{"
    /\ T[Len(T)] = "}"
    /\ ~HasChar(Slice(T, 1, Len(T) - 1), {"{", "}"})

ExpectedAt(i, M) ==
    LET B == Slice(path_str, 0, i)
        T == From(path_str, i + 6)
    IN  /\ SingleForm(T) => glob_result = GlobOk(B, <<T>>)
        /\ BracedForm(T) => glob_result = GlobOk(B, Listed(Slice(T, 1, Len(T) - 1)))

\* C1 as stated: for every base B with neither marker and all extensions
\* e1..en without '{', '}' and ',', parse_glob(B marker e1) = (B, [e1]) and
\* parse_glob(B marker "{e1,...,en}") = (B, [e1..en]), for the forward-slash
\* marker and for the backslash marker alike.
C1_AsStated ==
    Parsed =>
        \A i \in 0..Len(path_str) : \A M \in {FwdMarker, BwdMarker} :
            SplitsAt(i, M) => ExpectedAt(i, M)

\* C1, amended: the same, where for the backslash marker no extension holds
\* the forward-slash marker "/**/*." (parse_glob looks for that one first).
C1_GlobForms ==
    Parsed =>
        \A i \in 0..Len(path_str) : \A M \in {FwdMarker, BwdMarker} :
            (/\ SplitsAt(i, M)
             /\ M = BwdMarker => ~Contains(From(path_str, i + 6), FwdMarker))
            => ExpectedAt(i, M)

\* a braced list of two different extensions after a backslash marker has
\* been parsed
C1_Witness ==
    /\ Parsed
    /\ \E i \in 0..Len(path_str) :
        /\ SplitsAt(i, BwdMarker)
        /\ BracedForm(From(path_str, i + 6))
        /\ ~Contains(From(path_str, i + 6), FwdMarker)
    /\ glob_result.state = "Ok"
    /\ Len(glob_result.extensions) = 2
    /\ glob_result.extensions[1] # glob_result.extensions[2]

\* C2: an input with neither marker is returned unchanged as the base path,
\* with an empty extension list, and parse_glob succeeds.
C2_NoMarkerIdentity ==
    (Parsed /\ NoMarkerIn(path_str)) => glob_result = GlobOk(path_str, <<>>)

\* an input with a marker lacking its dot, and so with no marker, was parsed
C2_Witness ==
    /\ Parsed
    /\ NoMarkerIn(path_str)
    /\ Contains(path_str, Slice(FwdMarker, 0, 5))
    /\ HasChar(path_str, {"}"})

\* the marker parse_glob honours: the first "/**/*." if there is one, else
\* the first "\**\*."
MarkerAt(i) ==
    LET M == IF Contains(path_str, FwdMarker) THEN FwdMarker ELSE BwdMarker
    IN  /\ i + 6 <= Len(path_str)
        /\ Slice(path_str, i, i + 6) = M
        /\ \A j \in 0..(i - 1) : Slice(path_str, j, j + 6) # M

\* C7: with a marker and no '}' after it, parse_glob succeeds with the text
\* before the marker as base path and the whole text after the marker as the
\* one extension, an opening brace and commas included.
C7_UnclosedIsLiteral ==
    Parsed =>
        \A i \in 0..Len(path_str) :
            (MarkerAt(i) /\ ~HasChar(From(path_str, i + 6), {"}"}))
            => glob_result =
                   GlobOk(Slice(path_str, 0, i), <<From(path_str, i + 6)>>)

\* "{" and a comma follow the marker, no "}" does, and the input was parsed
C7_Witness ==
    /\ Parsed
    /\ \E i \in 1..Len(path_str) :
        /\ MarkerAt(i)
        /\ ~HasChar(From(path_str, i + 6), {"}"})
        /\ starts_with(From(path_str, i + 6), "{")
        /\ HasChar(From(path_str, i + 6), {","})
    /\ Len(glob_result.extensions) = 1

\* the text from the end of the marker at i to the first '}' after it
UpToBrace(i) ==
    LET T == From(path_str, i + 6)
        j == CHOOSE k \in 1..Len(T) :
                 T[k] = "}" /\ \A l \in 1..(k - 1) : T[l] # "}"
    IN  SubSeq(T, 1, j)

\* C8: with a marker and a '}' after it, parse_glob fails exactly when the
\* text from the marker's end to the first such '}' is not wrapped in braces;
\* the failure's message holds the whole input and carries no base path and
\* no extension list.
C8_InvalidPattern ==
    Parsed =>
        \A i \in 0..Len(path_str) :
            (MarkerAt(i) /\ HasChar(From(path_str, i + 6), {"}"}))
            => /\ glob_result.state = "Err" <=> UpToBrace(i)[1] # "{"
               /\ glob_result.state = "Err" =>
                      /\ Contains(glob_result.msg, path_str)
                      /\ glob_result.base_path = <<>>
                      /\ glob_result.extensions = <<>>
               /\ glob_result.state \in {"Ok", "Err"}

\* an extension closed by a brace it never opened was refused
C8_Witness ==
    /\ glob_result.state = "Err"
    /\ \E i \in 1..Len(path_str) :
        /\ MarkerAt(i)
        /\ HasChar(From(path_str, i + 6), {"}"})
        /\ UpToBrace(i)[1] = "d"

-----------------------------------------------------------------------------
(* Properties of is_valid_extension *)

\* C6: without a filter, or with an empty one, every path is accepted; with
\* a non-empty filter a path is accepted exactly when it has an extension
\* and that extension, as text, is one of the filter's, letter case
\* included.  So a path without extension is rejected by a non-empty filter.
C6_ExtensionFilter ==
    filt_result # "idle" =>
        (filt_result = "true") =
            IF ~filt_suffixes.some \/ Len(filt_suffixes.val) = 0
            THEN TRUE
            ELSE /\ extension(filt_path).some
                 /\ to_string_lossy(extension(filt_path).val)
                        \in {filt_suffixes.val[k] : k \in 1..Len(filt_suffixes.val)}

\* a name without extension met a non-empty filter and was rejected
C6_Witness ==
    /\ filt_result = "false"
    /\ filt_suffixes.some
    /\ Len(filt_suffixes.val) = 2
    /\ ~extension(filt_path).some

-----------------------------------------------------------------------------
(* Properties of list_files *)

\* the accepted regular files below (and at) path, depth first, each
\* directory's entries in the order the directory reports them
RECURSIVE Walk(_), WalkEntries(_, _)
Walk(path) ==
    IF fs[path].kind = "file"
    THEN IF is_valid_extension(ls_suffixes, path) THEN <<display(path)>> ELSE <<>>
    ELSE IF fs[path].kind = "dir" THEN WalkEntries(path, 1)
    ELSE <<>>

WalkEntries(dir, k) ==
    IF k > Len(fs[dir].entries) THEN <<>>
    ELSE Walk(Append(dir, fs[dir].entries[k])) \o WalkEntries(dir, k + 1)

OnlyFilesAndDirs == \A p \in DOMAIN fs : fs[p].kind \in {"file", "dir"}

\* C3: on a tree of regular files and directories, a call of list_files that
\* returns has appended to files exactly the accepted regular files of the
\* root's subtree, each once, depth first in the directories' read order,
\* after what files held before.
C3_DepthFirstListing ==
    (ls_status = "Ok" /\ OnlyFilesAndDirs) => files = files_before \o Walk(RootPath)

\* the tree r/{a.m, b.t, s/a.m} was listed with the filter ["m"]: a.m, then
\* the subdirectory's a.m, and b.t left out
C3_Witness ==
    /\ ls_status = "Ok"
    /\ OnlyFilesAndDirs
    /\ fs[RootPath].entries = <<<<"a", ".", "m">>, <<"b", ".", "t">>, <<"s">>>>
    /\ fs[Append(RootPath, <<"s">>)].entries = <<<<"a", ".", "m">>>>
    /\ is_file(<<<<"r">>, <<"s">>, <<"a", ".", "m">>>>)
    /\ ls_suffixes = Some(<<<<"m">>>>)
    /\ files = files_before \o
                  <<<<"r", "/", "a", ".", "m">>,
                    <<"r", "/", "s", "/", "a", ".", "m">>>>
    /\ files_before # <<>>

\* C4: list_files on a path that does not exist fails with "Not found", on
\* one that is neither a regular file nor a directory with "Not a
\* directory"; either way the caller gets the error and files is as before.
C4_RootErrors ==
    ls_status \in {"Ok", "Err"} =>
        /\ ~exists(RootPath) =>
               ls_status = "Err" /\ ls_err = "Not found" /\ files = files_before
        /\ (exists(RootPath) /\ fs[RootPath].kind = "other") =>
               /\ ls_status = "Err"
               /\ ls_err = "Not a directory"
               /\ files = files_before

\* list_files was called on a special file and failed
C4_Witness ==
    /\ exists(RootPath)
    /\ fs[RootPath].kind = "other"
    /\ ls_status = "Err"
    /\ ls_err = "Not a directory"
    /\ files_before # <<>>

\* C9: once the signal is raised during the traversal, the traversal is not
\* resumed: no further entry is visited, no path is appended, and the call
\* ends in no other way than with Cancelled.
C9_CancelStops ==
    [][(abort_signal /\ ls_status = "running") =>
          /\ visited' = visited
          /\ files' = files
          /\ ls_status' # "running" => (ls_status' = "Err" /\ ls_err' = "Cancelled")
      ]_vars

\* a traversal was cancelled after its first entries, others unread
C9_Witness ==
    /\ ls_status = "Err"
    /\ ls_err = "Cancelled"
    /\ visited >= 1
    /\ visited < Cardinality(DOMAIN fs) - 1
    /\ files # files_before

-----------------------------------------------------------------------------
(* Properties of load *)

Needs(t) == tool_of(calls[t].extension)

\* the error names the tool and says to install it
IsMissingDependency(r, tool) ==
    /\ r.state = "Err"
    /\ Len(r.msg) >= 2
    /\ r.msg[1] = "Need to install "
    /\ r.msg[2] = tool

\* C5 as stated: a load whose converter is absent all through the call fails
\* with the missing-dependency error and attempts no spawn.
C5_AsStated ==
    \A t \in Callers :
        (calls[t].pc = "done" /\ Needs(t) # "" /\ calls[t].absent_all) =>
            /\ IsMissingDependency(calls[t].result, Needs(t))
            /\ ~calls[t].spawned

\* C5, amended: a load whose converter was absent at the process's one
\* availability lookup (its cached flag is false) fails with the
\* missing-dependency error naming the tool, and never reaches
\* run_external_tool.
C5_MissingDependency ==
    \A t \in Callers :
        (calls[t].pc # "idle" /\ Needs(t) # "" /\ EXIST[Needs(t)] = "false") =>
            /\ calls[t].pc # "spawn"
            /\ ~calls[t].spawned
            /\ calls[t].pc = "done" =>
                   IsMissingDependency(calls[t].result, Needs(t))

\* loads of a pdf and of a docx both failed for the missing tool
C5_Witness ==
    \E t, u \in Callers :
        /\ calls[t].pc = "done" /\ calls[t].extension = "pdf"
        /\ calls[u].pc = "done" /\ calls[u].extension = "docx"
        /\ EXIST["pdftotext"] = "false" /\ EXIST["pandoc"] = "false"
        /\ IsMissingDependency(calls[t].result, "pdftotext")
        /\ IsMissingDependency(calls[u].result, "pandoc")

\* C10: each tool is looked up at most once, concurrent first uses
\* included; a flag that is set is never written again; and every load
\* observes what that one lookup returned, whatever the tool's state now.
C10_LookupOnce ==
    [][\A tool \in Tools :
          /\ Len(lookup_log'[tool]) <= 1
          /\ EXIST[tool] \in {"true", "false"} => EXIST'[tool] = EXIST[tool]
          /\ \A t \in Callers :
                (Needs(t)' = tool /\ calls'[t].observed # "none") =>
                    /\ Len(lookup_log'[tool]) = 1
                    /\ calls'[t].observed = lookup_log'[tool][1]
      ]_vars

\* two loads raced for the first use, and both observed the one lookup's
\* value although the tool has changed since
C10_Witness ==
    \E tool \in Tools :
        /\ Len(lookup_log[tool]) = 1
        /\ AsFlag(present[tool]) # lookup_log[tool][1]
        /\ \A t \in Callers :
            /\ Needs(t) = tool
            /\ calls[t].observed = lookup_log[tool][1]

-----------------------------------------------------------------------------
(* Specifications *)

Init ==
    /\ path_str = <<>>
    /\ pieces = 0
    /\ glob_result = GlobIdle
    /\ filt_suffixes = None
    /\ filt_path = <<>>
    /\ filt_result = "idle"
    /\ fs = <<>>
    /\ files = <<>>
    /\ files_before = <<>>
    /\ ls_suffixes = None
    /\ stack = <<>>
    /\ ls_status = "setup"
    /\ ls_err = ""
    /\ visited = 0
    /\ abort_signal = FALSE
    /\ present = [tool \in Tools |-> FALSE]
    /\ EXIST = [tool \in Tools |-> "uninit"]
    /\ lookup_log = [tool \in Tools |-> <<>>]
    /\ calls = [t \in Callers |-> IdleCall]

GlobNext == WritePiece \/ ParseGlob

FiltNext == WriteNameChar \/ GiveSuffixes \/ PushSuffix \/ CheckExtension

ListNext == MakeRoot \/ MakeEntry \/ StartList \/ ReadDir \/ ReadFails \/ NextEntry

CancelNext ==
    \/ MakeRoot \/ MakeEntry \/ StartList \/ ReadDir \/ ReadFails \/ NextEntry
    \/ RaiseAbort \/ Cancelled

LoadNext ==
    CallLoad \/ LoadPlain \/ Deref \/ Which \/ RunExternalTool \/ Install \/ Remove

SpecGlob == Init /\ [][GlobNext]_vars

SpecFilter == Init /\ [][FiltNext]_vars

SpecList == Init /\ [][ListNext]_vars

SpecCancel == Init /\ [][CancelNext]_vars

SpecLoad == Init /\ [][LoadNext]_vars

====
